---------------------------- MODULE Spec2Model ----------------------------
(***************************************************************************)
(* A model of the expression language of mvc.js: the tokenizer             *)
(* (src/src/expr/Lexer.ts), the recursive-descent parser and the template  *)
(* scanner (src/src/expr/Parser.ts) and the AST nodes (src/src/AST.ts).    *)
(*                                                                         *)
(* A string is a sequence of one-character strings.  A regular expression  *)
(* of the source is modelled by what RegExp.prototype.exec does with it:   *)
(* the leftmost match wins, and at one position the first alternative that *)
(* matches wins.  An alternative that does not start with ^ may match      *)
(* anywhere in the text.                                                   *)
(***************************************************************************)
EXTENDS Integers, Sequences, FiniteSets, TLC

(***************************************************************************)
(* Bounds of the model.                                                    *)
(***************************************************************************)
\* Frames the engine's call stack holds before it raises RangeError.
MaxStack == 30
\* Binary operators of a chain x op y op z ...
MaxOperators == 2
\* Words of an expression input.
MaxWords == 3
\* Words of a template input.
MaxTemplateWords == 4
\* Parameters of a Bind node.
MaxParameters == 2

(***************************************************************************)
(* Characters.                                                             *)
(***************************************************************************)
Lower == {"a","b","c","d","e","f","g","h","i","j","k","l","m",
          "n","o","p","q","r","s","t","u","v","w","x","y","z"}
Upper == {"A","B","C","D","E","F","G","H","I","J","K","L","M",
          "N","O","P","Q","R","S","T","U","V","W","X","Y","Z"}
Digit == {"0","1","2","3","4","5","6","7","8","9"}
\* \s
Space == {" ", "\t", "\n", "\r", "\f"}
\* [A-Za-z_]
NameStart == Lower \cup Upper \cup {"_"}
\* [A-Za-z0-9_], which is also \w
NameChar == NameStart \cup Digit

DigitValue(c) ==
  CASE c = "0" -> 0 [] c = "1" -> 1 [] c = "2" -> 2 [] c = "3" -> 3
    [] c = "4" -> 4 [] c = "5" -> 5 [] c = "6" -> 6 [] c = "7" -> 7
    [] c = "8" -> 8 [] c = "9" -> 9

\* String.prototype.substr(n): the text from offset n on.
Substr(s, n) == IF n >= Len(s) THEN <<>> ELSE SubSeq(s, n + 1, Len(s))

\* Whether text w stands in s at offset p (0-based).
At(s, p, w) == /\ p + Len(w) <= Len(s)
               /\ \A k \in 1..Len(w) : s[p + k] = w[k]

\* The length of the longest prefix of s whose characters are all in class.
RECURSIVE Span(_, _)
Span(s, class) ==
  IF s # <<>> /\ Head(s) \in class THEN 1 + Span(Tail(s), class) ELSE 0

(***************************************************************************)
(* Regular expressions of Lexer.next.  A pattern returns the matched text  *)
(* (result[0] of exec), or NoMatch.                                        *)
(***************************************************************************)
NoMatch == <<"<null>">>

\* /^word/ for a word without special characters
Prefix(w, s) == IF At(s, 0, w) THEN w ELSE NoMatch

\* /^in\b/
KeywordIn(s) ==
  IF At(s, 0, <<"i","n">>) /\ (Len(s) = 2 \/ s[3] \notin NameChar)
  THEN <<"i","n">> ELSE NoMatch

\* /^\s+/
Whitespace(s) ==
  IF Span(s, Space) > 0 THEN SubSeq(s, 1, Span(s, Space)) ELSE NoMatch

\* /^[A-Za-z_][A-Za-z0-9_]*/
Name(s) ==
  IF s # <<>> /\ Head(s) \in NameStart
  THEN SubSeq(s, 1, 1 + Span(Tail(s), NameChar)) ELSE NoMatch

\* /^[0-9]+/
Number(s) ==
  IF Span(s, Digit) > 0 THEN SubSeq(s, 1, Span(s, Digit)) ELSE NoMatch

\* The body of a string pattern from offset p: ([^q](\\q))* and then q.
RECURSIVE QuotedEnd(_, _, _)
QuotedEnd(s, p, q) ==
  IF p + 1 > Len(s) THEN 0
  ELSE IF s[p + 1] = q THEN p + 1
  ELSE IF p + 3 <= Len(s) /\ s[p + 2] = "\\" /\ s[p + 3] = q
       THEN QuotedEnd(s, p + 3, q)
  ELSE 0

\* /^"([^"](\\"))*"/ with q the quote, and the same with the single quote
Quoted(s, q) ==
  IF s # <<>> /\ Head(s) = q /\ QuotedEnd(s, 1, q) > 0
  THEN SubSeq(s, 1, QuotedEnd(s, 1, q)) ELSE NoMatch

\* One alternative of a pattern: its text, and whether it starts with ^.
Alt(anchored, text) == [anchored |-> anchored, text |-> text]

\* Whether alternative alt matches s at offset p.
AltAt(s, p, alt) == (alt.anchored => p = 0) /\ At(s, p, alt.text)

Min(S) == CHOOSE x \in S : \A y \in S : x <= y

\* exec of /A1|A2|.../ from offset p on: the leftmost offset where an
\* alternative matches, and there the first alternative that does.
RECURSIVE AlternationFrom(_, _, _)
AlternationFrom(s, p, alts) ==
  IF p >= Len(s) THEN NoMatch
  ELSE IF \E k \in 1..Len(alts) : AltAt(s, p, alts[k])
  THEN alts[Min({k \in 1..Len(alts) : AltAt(s, p, alts[k])})].text
  ELSE AlternationFrom(s, p + 1, alts)

Alternation(s, alts) == AlternationFrom(s, 0, alts)

\* /^\>\>\>|\=\=\=|\!\=\=/
Operator3(s) ==
  Alternation(s, << Alt(TRUE, <<">",">",">">>), Alt(FALSE, <<"=","=","=">>),
                    Alt(FALSE, <<"!","=","=">>) >>)

\* /^\*\*|\<\<|\>\>|\<\=|\>\=|\=\=|\!\=|\?\?|\&\&|\|\|/
Operator2(s) ==
  Alternation(s, << Alt(TRUE, <<"*","*">>), Alt(FALSE, <<"<","<">>),
                    Alt(FALSE, <<">",">">>), Alt(FALSE, <<"<","=">>),
                    Alt(FALSE, <<">","=">>), Alt(FALSE, <<"=","=">>),
                    Alt(FALSE, <<"!","=">>), Alt(FALSE, <<"?","?">>),
                    Alt(FALSE, <<"&","&">>), Alt(FALSE, <<"|","|">>) >>)

\* /^\+|\-|\*|\/|\%|\<|\>|\!/
Operator1(s) ==
  Alternation(s, << Alt(TRUE, <<"+">>), Alt(FALSE, <<"-">>),
                    Alt(FALSE, <<"*">>), Alt(FALSE, <<"/">>),
                    Alt(FALSE, <<"%">>), Alt(FALSE, <<"<">>),
                    Alt(FALSE, <<">">>), Alt(FALSE, <<"!">>) >>)

(***************************************************************************)
(* Lexer.  A lexer is the record of its fields.                            *)
(***************************************************************************)
\* What a call leaves behind: st is "ok" (it returned val), "syntax" (it threw
\* MVC.SyntaxError, whose input is err), "range" (the engine threw RangeError:
\* the call stack is exhausted) or "json" (JSON.parse threw).  lex is the lexer
\* as the call left it.
Nil == [kind |-> "nil"]
Ok(val, lex) == [st |-> "ok", val |-> val, lex |-> lex, err |-> <<>>]
Fail(st, lex, err) == [st |-> st, val |-> Nil, lex |-> lex, err |-> err]
\* throw new MVC.SyntaxError(input)
SyntaxError(input, lex) == Fail("syntax", lex, input)

\* const v = x; and then K(v): x is evaluated once.
With(x, K(_)) == CHOOSE y \in {K(v) : v \in {x}} : TRUE

\* const r = <a call>; and then K(r): when the call throws, K is never reached
\* and what was thrown propagates.
Try(result, K(_)) == With(result, LAMBDA r : IF r.st = "ok" THEN K(r) ELSE r)

\* new Lexer(originalInput)
Lexer(originalInput) ==
  [originalInput |-> originalInput, input |-> originalInput,
   token |-> "begin", label |-> <<>>]

\* The switch of Lexer.next: the token of each case, in order, and what the
\* pattern of case k matches.
RuleTokens ==
  <<"undefined", "true", "false", "in", "name", "dot", "number", "string",
    "string", "operator", "operator", "operator", "comma", "left", "right",
    "left-square", "right-square", "pipe">>

RulePattern(k, s) ==
  CASE k = 1 -> Prefix(<<"u","n","d","e","f","i","n","e","d">>, s)
    [] k = 2 -> Prefix(<<"t","r","u","e">>, s)
    [] k = 3 -> Prefix(<<"f","a","l","s","e">>, s)
    [] k = 4 -> KeywordIn(s)
    [] k = 5 -> Name(s)
    [] k = 6 -> Prefix(<<".">>, s)
    [] k = 7 -> Number(s)
    [] k = 8 -> Quoted(s, "\"")
    [] k = 9 -> Quoted(s, "'")
    [] k = 10 -> Operator3(s)
    [] k = 11 -> Operator2(s)
    [] k = 12 -> Operator1(s)
    [] k = 13 -> Prefix(<<",">>, s)
    [] k = 14 -> Prefix(<<"(">>, s)
    [] k = 15 -> Prefix(<<")">>, s)
    [] k = 16 -> Prefix(<<"[">>, s)
    [] k = 17 -> Prefix(<<"]">>, s)
    [] k = 18 -> Prefix(<<"|">>, s)

\* Lexer._read and Lexer._match for the first case that matches: the label is
\* the matched text and the input loses label.length characters at its front.
Match(lex, token, label) ==
  [lex EXCEPT !.input = Substr(lex.input, Len(label)),
              !.token = token, !.label = label]

\* The switch of Lexer.next from case k on: the cases are tried in order and
\* the first whose pattern matches sets the token and the label.
RECURSIVE Switch(_, _)
Switch(lex, k) ==
  IF k > Len(RuleTokens) THEN SyntaxError(lex.originalInput, lex)
  ELSE With(RulePattern(k, lex.input), LAMBDA label :
         IF label = NoMatch THEN Switch(lex, k + 1)
         ELSE Ok(RuleTokens[k], Match(lex, RuleTokens[k], label)))

\* Lexer.next
RECURSIVE LexNext(_)
LexNext(lex) ==
  IF lex.input = <<>>
  THEN Ok("end", [lex EXCEPT !.token = "end", !.label = <<>>])
  ELSE IF Whitespace(lex.input) # NoMatch
  THEN LexNext([lex EXCEPT !.input = Substr(lex.input, Span(lex.input, Space))])
  ELSE Switch(lex, 1)

\* Lexer.step refusing to advance from the token end.
LexStepRaisingAtEnd(lex) ==
  IF lex.token = "end" THEN SyntaxError(lex.originalInput, lex)
  ELSE Try(LexNext(lex), LAMBDA n : Ok(lex.label, n.lex))

\* Lexer.step
LexStep(lex) == Try(LexNext(lex), LAMBDA n : Ok(lex.label, n.lex))

\* Lexer.expect advancing before it compares the token.
LexExpectSteppingFirst(lex, tokens) ==
  Try(LexNext(lex), LAMBDA n :
    IF lex.token \in tokens THEN Ok(lex.label, n.lex)
    ELSE SyntaxError(lex.originalInput, n.lex))

\* Lexer.expect
LexExpect(lex, tokens) ==
  IF lex.token \in tokens THEN LexStep(lex)
  ELSE SyntaxError(lex.originalInput, lex)

(***************************************************************************)
(* Values and AST nodes.                                                   *)
(***************************************************************************)
\* parseFloat of a text of decimal digits.
RECURSIVE ParseFloat(_)
ParseFloat(digits) ==
  IF digits = <<>> THEN 0
  ELSE 10 * ParseFloat(SubSeq(digits, 1, Len(digits) - 1))
       + DigitValue(digits[Len(digits)])

Undefined == [type |-> "undefined"]
Boolean(b) == [type |-> "boolean", bool |-> b]
Num(n) == [type |-> "number", num |-> n]
Str(s) == [type |-> "string", str |-> s]

\* The text of a JSON string from offset p (0-based) up to its closing quote,
\* decoded; BadJSON when the text is no JSON string.
BadJSON == <<"<SyntaxError>">>
\* U+0008, which no TLA+ string holds.
Backspace == "<U+0008>"
Escapes == [c \in {"\"", "\\", "/", "b", "f", "n", "r", "t"} |->
              CASE c = "b" -> Backspace [] c = "f" -> "\f" [] c = "n" -> "\n"
                [] c = "r" -> "\r" [] c = "t" -> "\t" [] OTHER -> c]
RECURSIVE JSONChars(_, _)
JSONChars(s, p) ==
  IF p >= Len(s) THEN BadJSON
  ELSE IF s[p + 1] = "\"" THEN (IF p + 1 = Len(s) THEN <<>> ELSE BadJSON)
  ELSE IF s[p + 1] \in {"\t", "\n", "\r", "\f", Backspace} THEN BadJSON
  ELSE IF s[p + 1] = "\\"
       THEN IF p + 2 <= Len(s) /\ s[p + 2] \in DOMAIN Escapes
            THEN LET rest == JSONChars(s, p + 2)
                 IN IF rest = BadJSON THEN BadJSON
                    ELSE <<Escapes[s[p + 2]]>> \o rest
            ELSE BadJSON
  ELSE LET rest == JSONChars(s, p + 1)
       IN IF rest = BadJSON THEN BadJSON ELSE <<s[p + 1]>> \o rest

\* JSON.parse of a label of the string patterns: the decoded text, or BadJSON.
JSONParse(label) ==
  IF label # <<>> /\ Head(label) = "\"" THEN JSONChars(label, 1) ELSE BadJSON

\* new LiteralNode(value)
LiteralNode(value) == [kind |-> "Literal", value |-> value]
\* new UnaryNode(operator, inner)
UnaryNode(operator, inner) ==
  [kind |-> "Unary", operator |-> operator, inner |-> inner]
\* new BinaryNode(operator, left, right)
BinaryNode(operator, left, right) ==
  [kind |-> "Binary", operator |-> operator, left |-> left, right |-> right]
\* new VariableNode(name)
VariableNode(name) == [kind |-> "Variable", name |-> name]
\* new BindNode(name, parameters)
BindNode(name, parameters) ==
  [kind |-> "Bind", name |-> name, parameters |-> parameters]
\* new PipeNode(left, right)
PipeNode(left, right) == [kind |-> "Pipe", left |-> left, right |-> right]
\* new FieldComponent(name)
FieldComponent(name) == [kind |-> "Field", name |-> name]
\* new SubscriptComponent(index)
SubscriptComponent(index) == [kind |-> "Subscript", index |-> index]
\* new ReferenceNode(components)
ReferenceNode(components) == [kind |-> "Reference", components |-> components]
\* new StaticFragmentNode(text)
StaticFragmentNode(text) == [kind |-> "StaticFragment", text |-> text]
\* new InterpolatedNode(fragments)
InterpolatedNode(fragments) == [kind |-> "Interpolated", fragments |-> fragments]
\* new CollectionIterationNode(name, source)
CollectionIterationNode(name, source) ==
  [kind |-> "CollectionIteration", name |-> name, source |-> source]
\* new DictionaryIterationNode(keyName, valueName, source)
DictionaryIterationNode(keyName, valueName, source) ==
  [kind |-> "DictionaryIteration", keyName |-> keyName, valueName |-> valueName,
   source |-> source]

(***************************************************************************)
(* free() of the nodes of AST.ts.  A list of names is a sequence of names. *)
(***************************************************************************)
\* An argument of unique: a list of names, or one name.
Names(list) == [array |-> TRUE, items |-> list]
OneName(name) == [array |-> FALSE, items |-> <<name>>]

\* array.concat(...elements): a list is spread, a name is one element.
RECURSIVE ConcatElements(_)
ConcatElements(elements) ==
  IF elements = <<>> THEN <<>>
  ELSE Head(elements).items \o ConcatElements(Tail(elements))

\* [...new Set(list)]: a Set keeps each value once, in insertion order.
RECURSIVE SetOrder(_, _)
SetOrder(list, set) ==
  IF list = <<>> THEN set
  ELSE SetOrder(Tail(list),
                IF \E k \in 1..Len(set) : set[k] = Head(list) THEN set
                ELSE Append(set, Head(list)))

\* unique without the Set: the concatenation as it is.
UniqueWithoutSet(elements) == ConcatElements(elements)

\* unique(...elements)
Unique(elements) == SetOrder(ConcatElements(elements), <<>>)

\* free() of LiteralNode, VariableNode, UnaryNode, BinaryNode, BindNode and
\* PipeNode.
RECURSIVE Free(_)
Free(node) ==
  CASE node.kind = "Literal" -> <<>>
    [] node.kind = "Variable" -> <<node.name>>
    [] node.kind = "Unary" -> Free(node.inner)
    [] node.kind = "Binary" ->
         Unique(<<Names(Free(node.left)), Names(Free(node.right))>>)
    [] node.kind = "Bind" ->
         Unique(<<OneName(node.name)>>
                \o [k \in 1..Len(node.parameters) |->
                      Names(Free(node.parameters[k]))])
    [] node.kind = "Pipe" ->
         Unique(<<Names(Free(node.left)), Names(Free(node.right))>>)

(***************************************************************************)
(* Parser.  Each method takes the lexer as it finds it and the number d of *)
(* frames left on the call stack, and returns what the call leaves behind. *)
(***************************************************************************)
\* Parser._BINARY_OPERATOR_PRECEDENCE_TABLE
PrecedenceTable ==
  << [leftAssociative |-> FALSE, operators |-> {<<"*","*">>}],
     [leftAssociative |-> TRUE, operators |-> {<<"*">>, <<"/">>, <<"%">>}],
     [leftAssociative |-> TRUE, operators |-> {<<"+">>, <<"-">>}],
     [leftAssociative |-> TRUE,
      operators |-> {<<"<","<">>, <<">",">">>, <<">",">",">">>}],
     [leftAssociative |-> TRUE,
      operators |-> {<<"<">>, <<"<","=">>, <<">">>, <<">","=">>, <<"i","n">>}],
     [leftAssociative |-> TRUE,
      operators |-> {<<"=","=">>, <<"!","=">>, <<"=","=","=">>, <<"!","=","=">>}] >>

\* RangeError: Maximum call stack size exceeded
RangeError(lex) == Fail("range", lex, <<>>)

\* Parser._parseStringLiteral
ParseStringLiteral(label, lex) ==
  With(JSONParse(label), LAMBDA text :
    IF text = BadJSON THEN Fail("json", lex, <<>>) ELSE Ok(Str(text), lex))

\* The condition of the loop of Parser._parseBinaryNode.
IsOperatorOf(lex, operators) ==
  lex.token \in {"operator", "in"} /\ lex.label \in operators

RECURSIVE ParseReferenceComponents(_, _, _)
RECURSIVE ParseValue(_, _)
RECURSIVE ParseUnaryNode(_, _)
RECURSIVE ParseBinaryNode(_, _, _)
RECURSIVE ParseLeftAssociative(_, _, _, _)

\* Parser._parseRoot
ParseRoot(lex, d) ==
  IF d = 0 THEN RangeError(lex) ELSE ParseBinaryNode(0, lex, d - 1)

\* Parser._parseReferenceComponents
ParseReferenceComponents(components, lex, d) ==
  IF d = 0 THEN RangeError(lex)
  ELSE IF lex.token = "dot"
  THEN Try(LexExpect(lex, {"name"}), LAMBDA label :
         ParseReferenceComponents(
           Append(components, FieldComponent(label.val)), label.lex, d - 1))
  ELSE IF lex.token = "left-square"
  THEN Try(LexNext(lex), LAMBDA n :
       Try(ParseRoot(n.lex, d - 1), LAMBDA index :
       Try(LexExpect(index.lex, {"right-square"}), LAMBDA e :
         ParseReferenceComponents(
           Append(components, SubscriptComponent(index.val)), e.lex, d - 1))))
  ELSE Ok(ReferenceNode(components), lex)

\* Parser._parseReference
ParseReference(lex, d) ==
  IF d = 0 THEN RangeError(lex)
  ELSE Try(LexExpect(lex, {"name"}), LAMBDA label :
         ParseReferenceComponents(<<FieldComponent(label.val)>>, label.lex, d - 1))

\* Parser._parseValue
ParseValue(lex, d) ==
  IF d = 0 THEN RangeError(lex)
  ELSE CASE lex.token = "undefined" ->
              Try(LexNext(lex), LAMBDA n : Ok(LiteralNode(Undefined), n.lex))
         [] lex.token = "true" ->
              Try(LexNext(lex), LAMBDA n : Ok(LiteralNode(Boolean(TRUE)), n.lex))
         [] lex.token = "false" ->
              Try(LexNext(lex), LAMBDA n : Ok(LiteralNode(Boolean(FALSE)), n.lex))
         [] lex.token = "number" ->
              Try(LexStep(lex), LAMBDA label :
                Ok(LiteralNode(Num(ParseFloat(label.val))), label.lex))
         [] lex.token = "string" ->
              Try(LexStep(lex), LAMBDA label :
              Try(ParseStringLiteral(label.val, label.lex), LAMBDA value :
                Ok(LiteralNode(value.val), label.lex)))
         [] lex.token = "left" ->
              Try(ParseRoot(lex, d - 1), LAMBDA node :
              Try(LexExpect(node.lex, {"right"}), LAMBDA e : Ok(node.val, e.lex)))
         [] OTHER -> ParseReference(lex, d - 1)

\* Parser._parseUnaryNode
ParseUnaryNode(lex, d) ==
  IF d = 0 THEN RangeError(lex)
  ELSE IF lex.token # "operator" THEN ParseValue(lex, d - 1)
  ELSE IF lex.label \in {<<"+">>, <<"-">>, <<"!">>}
  THEN Try(LexNext(lex), LAMBDA n :
       Try(ParseUnaryNode(n.lex, d - 1), LAMBDA inner :
         Ok(UnaryNode(lex.label, inner.val), inner.lex)))
  ELSE SyntaxError(lex.originalInput, lex)

\* The while loop of Parser._parseBinaryNode, with the node built so far.
ParseLeftAssociative(precedenceIndex, node, lex, d) ==
  IF ~IsOperatorOf(lex, PrecedenceTable[precedenceIndex + 1].operators)
  THEN Ok(node, lex)
  ELSE Try(LexStep(lex), LAMBDA operator :
       Try(ParseBinaryNode(precedenceIndex + 1, operator.lex, d - 1), LAMBDA right :
         ParseLeftAssociative(precedenceIndex,
                              BinaryNode(operator.val, node, right.val),
                              right.lex, d)))

\* Parser._parseBinaryNode
ParseBinaryNode(precedenceIndex, lex, d) ==
  IF d = 0 THEN RangeError(lex)
  ELSE IF precedenceIndex < Len(PrecedenceTable)
  THEN Try(ParseBinaryNode(precedenceIndex + 1, lex, d - 1), LAMBDA left :
         IF PrecedenceTable[precedenceIndex + 1].leftAssociative
         THEN ParseLeftAssociative(precedenceIndex, left.val, left.lex, d)
         ELSE IF ~IsOperatorOf(left.lex, PrecedenceTable[precedenceIndex + 1].operators)
         THEN left
         ELSE Try(LexStep(left.lex), LAMBDA operator :
              Try(ParseBinaryNode(precedenceIndex, operator.lex, d - 1), LAMBDA right :
                Ok(BinaryNode(operator.val, left.val, right.val), right.lex))))
  ELSE ParseUnaryNode(lex, d - 1)

\* new Parser(input)
Parser(input) == LexNext(Lexer(input))

\* Parser.parse
ParserParse(lex, d) ==
  IF d = 0 THEN RangeError(lex)
  ELSE Try(ParseRoot(lex, d - 1), LAMBDA node :
         IF node.lex.token = "end" THEN node
         ELSE SyntaxError(lex.originalInput, node.lex))

\* Parser._parseCollectionIteration
ParseCollectionIteration(name, lex, d) ==
  IF d = 0 THEN RangeError(lex)
  ELSE Try(ParserParse(lex, d - 1), LAMBDA source :
         Ok(CollectionIterationNode(name, source.val), source.lex))

\* Parser._parseDictionaryIteration
ParseDictionaryIteration(keyName, lex, d) ==
  IF d = 0 THEN RangeError(lex)
  ELSE Try(LexExpect(lex, {"name"}), LAMBDA valueName :
       Try(LexExpect(valueName.lex, {"in"}), LAMBDA e :
       Try(ParserParse(e.lex, d - 1), LAMBDA source :
         Ok(DictionaryIterationNode(keyName, valueName.val, source.val),
            source.lex))))

\* Parser.parseIteration
ParserParseIteration(lex, d) ==
  IF d = 0 THEN RangeError(lex)
  ELSE Try(LexExpect(lex, {"name"}), LAMBDA name :
         CASE name.lex.token = "comma" ->
                Try(LexNext(name.lex), LAMBDA n :
                  ParseDictionaryIteration(name.val, n.lex, d - 1))
           [] name.lex.token = "in" ->
                Try(LexNext(name.lex), LAMBDA n :
                  ParseCollectionIteration(name.val, n.lex, d - 1))
           [] OTHER -> SyntaxError(lex.originalInput, name.lex))

\* new Parser(input).parseIteration()
ParseIteration(input, d) ==
  IF d = 0 THEN RangeError(Lexer(input))
  ELSE Try(Parser(input), LAMBDA parser : ParserParseIteration(parser.lex, d - 1))

\* parse(input)
Parse(input, d) ==
  IF d = 0 THEN RangeError(Lexer(input))
  ELSE Try(Parser(input), LAMBDA parser : ParserParse(parser.lex, d - 1))

(***************************************************************************)
(* interpolate.  i is the loop variable (0-based), text the text gathered  *)
(* so far.                                                                 *)
(***************************************************************************)
\* input[i] as string concatenation sees it: past the end it is undefined,
\* which '+' turns into the text "undefined".
CharAt(input, i) ==
  IF i < Len(input) THEN <<input[i + 1]>>
  ELSE <<"u","n","d","e","f","i","n","e","d">>

\* The function called in place inside interpolate: the scan of one region,
\* entered with i at the region's first character.  It leaves behind what the
\* region's parse leaves behind (result) and the offset the scan stopped at.
RECURSIVE Region(_, _, _, _)
Region(input, i, text, d) ==
  IF d = 0 THEN [result |-> RangeError(Nil), i |-> i]
  ELSE IF i >= Len(input) THEN [result |-> SyntaxError(input, Nil), i |-> i]
  ELSE IF input[i + 1] # "}" THEN Region(input, i + 1, text \o <<input[i + 1]>>, d)
  ELSE IF i + 1 < Len(input) /\ input[i + 2] = "}"
       THEN [result |-> Parse(text, d - 1), i |-> i + 1]
  ELSE Region(input, i + 2, text \o <<"}">> \o CharAt(input, i + 1), d)

\* The loop of interpolate.
RECURSIVE Scan(_, _, _, _, _)
Scan(input, i, text, fragments, d) ==
  IF i >= Len(input)
  THEN Ok(InterpolatedNode(Append(fragments, StaticFragmentNode(text))), Nil)
  ELSE IF input[i + 1] # "{"
  THEN Scan(input, i + 1, text \o <<input[i + 1]>>, fragments, d)
  ELSE IF i + 1 < Len(input) /\ input[i + 2] = "{"
  THEN With(Region(input, i + 2, <<>>, d - 1), LAMBDA region :
         IF region.result.st # "ok" THEN region.result
         ELSE Scan(input, region.i + 1, <<>>,
                   fragments \o <<StaticFragmentNode(text), region.result.val>>, d))
  ELSE Scan(input, i + 2, text \o <<"{">> \o CharAt(input, i + 1), fragments, d)

\* interpolate without the push of the last StaticFragment.
InterpolateWithoutLastFragment(input, d) ==
  IF d = 0 THEN RangeError(Nil)
  ELSE With(Scan(input, 0, <<>>, <<>>, d), LAMBDA r :
         IF r.st # "ok" THEN r
         ELSE Ok(InterpolatedNode(SubSeq(r.val.fragments, 1,
                                         Len(r.val.fragments) - 1)), Nil))

\* interpolate(input)
Interpolate(input, d) ==
  IF d = 0 THEN RangeError(Nil) ELSE Scan(input, 0, <<>>, <<>>, d)

(***************************************************************************)
(* Evaluation.  compile() of a node is a text, and the evaluator is the    *)
(* function new Function makes of it: evaluating a node is evaluating the  *)
(* text it compiles to, by the rules of the language the text is in.       *)
(* Identifiers of the text are looked up in the scope of the function.     *)
(* A result holds what was observed outside, in order: the functions that  *)
(* were applied and what was handed to console.error.                      *)
(***************************************************************************)
NaN == [type |-> "number", nan |-> TRUE]
Arr(items) == [type |-> "array", items |-> items]
Dict(keys) == [type |-> "object", keys |-> keys]
Fn(name) == [type |-> "function", name |-> name]

\* return val; and throw err;
Returned(val, observed) ==
  [st |-> "ok", val |-> val, err |-> <<>>, observed |-> observed]
Thrown(err, observed) ==
  [st |-> "throw", val |-> Nil, err |-> err, observed |-> observed]
ReferenceError(name) == [error |-> "ReferenceError", name |-> name]
TypeError(value) == [error |-> "TypeError", value |-> value]
\* What is observed outside.
Applied(name) == [applied |-> name]
ConsoleError(e) == [reported |-> e]

\* The decimal text of an integer.
DigitChar(k) == CHOOSE c \in Digit : DigitValue(c) = k
RECURSIVE NaturalToString(_)
NaturalToString(n) ==
  IF n < 10 THEN <<DigitChar(n)>>
  ELSE NaturalToString(n \div 10) \o <<DigitChar(n % 10)>>
NumberToString(n) ==
  IF n < 0 THEN <<"-">> \o NaturalToString(0 - n) ELSE NaturalToString(n)

\* The characters of a text between the quotes JSON.stringify puts around it.
RECURSIVE EscapeJSON(_)
EscapeJSON(s) ==
  IF s = <<>> THEN <<>>
  ELSE (CASE Head(s) \in {"\"", "\\"} -> <<"\\", Head(s)>>
          [] Head(s) = "\n" -> <<"\\", "n">>
          [] Head(s) = "\r" -> <<"\\", "r">>
          [] Head(s) = "\t" -> <<"\\", "t">>
          [] Head(s) = "\f" -> <<"\\", "f">>
          [] Head(s) = Backspace -> <<"\\", "b">>
          [] OTHER -> <<Head(s)>>)
       \o EscapeJSON(Tail(s))

\* LiteralNode's _value as compile() prints it: JSON.stringify(value), which
\* is undefined for undefined and which the template prints as "undefined".
Stringify(value) ==
  CASE value.type = "undefined" -> <<"u","n","d","e","f","i","n","e","d">>
    [] value.type = "boolean" ->
         (IF value.bool THEN <<"t","r","u","e">> ELSE <<"f","a","l","s","e">>)
    [] value.type = "number" -> NumberToString(value.num)
    [] value.type = "string" -> <<"\"">> \o EscapeJSON(value.str) \o <<"\"">>

\* The value of the text of a literal.
LiteralValue(code) ==
  CASE code = <<"u","n","d","e","f","i","n","e","d">> -> Undefined
    [] code = <<"t","r","u","e">> -> Boolean(TRUE)
    [] code = <<"f","a","l","s","e">> -> Boolean(FALSE)
    [] Head(code) \in Digit -> Num(ParseFloat(code))
    [] Head(code) = "\"" -> Str(JSONParse(code))

\* String(value).  Strings of the model hold letters and digits only.
RECURSIVE StringOf(_)
RECURSIVE Join(_)
StringOf(value) ==
  CASE value.type = "undefined" -> <<"u","n","d","e","f","i","n","e","d">>
    [] value.type = "boolean" ->
         (IF value.bool THEN <<"t","r","u","e">> ELSE <<"f","a","l","s","e">>)
    [] value.type = "number" ->
         (IF value = NaN THEN <<"N","a","N">> ELSE NumberToString(value.num))
    [] value.type = "string" -> value.str
    [] value.type = "array" -> Join(value.items)
    [] value.type = "object" ->
         <<"[","o","b","j","e","c","t"," ","O","b","j","e","c","t","]">>
    [] value.type = "function" ->
         <<"f","u","n","c","t","i","o","n"," ">> \o value.name
         \o <<"(",")"," ","{"," ","}">>
\* Array.prototype.join with the comma: undefined gives the empty text.
Join(items) ==
  IF items = <<>> THEN <<>>
  ELSE (IF Head(items).type = "undefined" THEN <<>> ELSE StringOf(Head(items)))
       \o (IF Len(items) = 1 THEN <<>> ELSE <<",">> \o Join(Tail(items)))

\* Number(text) for a text of letters, digits and punctuation without a
\* sign, a point or an exponent.
StringToNumber(s) ==
  IF s = <<>> THEN Num(0)
  ELSE IF \A k \in 1..Len(s) : s[k] \in Digit THEN Num(ParseFloat(s))
  ELSE NaN

\* +value
ToNumber(value) ==
  CASE value.type = "undefined" -> NaN
    [] value.type = "boolean" -> Num(IF value.bool THEN 1 ELSE 0)
    [] value.type = "number" -> value
    [] value.type = "string" -> StringToNumber(value.str)
    [] OTHER -> StringToNumber(StringOf(value))

\* !!value
ToBoolean(value) ==
  CASE value.type = "undefined" -> FALSE
    [] value.type = "boolean" -> value.bool
    [] value.type = "number" -> value # NaN /\ value.num # 0
    [] value.type = "string" -> value.str # <<>>
    [] OTHER -> TRUE

\* ~~number.  The numbers of the model are integers of fewer than 32 bits,
\* which ~~ leaves as they are.
ToInt32(number) == IF number = NaN THEN Num(0) ELSE number

\* operator(value) of the text UnaryNode.compile prints
UnaryOperator(operator, value) ==
  CASE operator = <<"!">> -> Boolean(~ToBoolean(value))
    [] operator = <<"+">> -> ToNumber(value)
    [] operator = <<"-">> ->
         (IF ToNumber(value) = NaN THEN NaN ELSE Num(0 - ToNumber(value).num))

\* (left)-(right) of the text BinaryNode.compile prints
BinaryOperator(operator, left, right) ==
  CASE operator = <<"-">> ->
         (IF ToNumber(left) = NaN \/ ToNumber(right) = NaN THEN NaN
          ELSE Num(ToNumber(left).num - ToNumber(right).num))

\* The scope the identifiers of an evaluator are looked up in: a mapping, a
\* number, a text, a list and three functions.  f returns its first
\* argument, g returns f and fail throws.
Scope ==
  (<<"a">> :> Dict({<<"b">>})) @@ (<<"n">> :> Num(7)) @@ (<<"s">> :> Str(<<"7">>))
  @@ (<<"x","s">> :> Arr(<<Num(1), Undefined>>))
  @@ (<<"f">> :> Fn(<<"f">>)) @@ (<<"g">> :> Fn(<<"g">>))
  @@ (<<"f","a","i","l">> :> Fn(<<"f","a","i","l">>))

\* An identifier of the text: its value in the scope, or a ReferenceError.
Lookup(name, observed) ==
  IF name \in DOMAIN Scope THEN Returned(Scope[name], observed)
  ELSE Thrown(ReferenceError(name), observed)

\* callee(...arguments) once the callee and the arguments are evaluated
Call(callee, arguments, observed) ==
  IF callee.type # "function" THEN Thrown(TypeError(callee), observed)
  ELSE CASE callee.name = <<"f">> ->
              Returned(IF arguments = <<>> THEN Undefined ELSE arguments[1],
                       Append(observed, Applied(callee.name)))
         [] callee.name = <<"g">> ->
              Returned(Fn(<<"f">>), Append(observed, Applied(callee.name)))
         [] callee.name = <<"f","a","i","l">> ->
              Thrown([error |-> "Error", message |-> callee.name],
                     Append(observed, Applied(callee.name)))

RECURSIVE Evaluate(_, _)
RECURSIVE EvaluateAll(_, _, _)
\* The value of the text node.compile() prints.
\*   LiteralNode:  _value
\*   VariableNode: name
\*   UnaryNode:    operator(inner)
\*   BinaryNode:   (left)operator(right)
\*   BindNode:     name(parameter,...): the name is looked up, then the
\*                 arguments are evaluated in order, then the call is made
\*   PipeNode:     (right)(left): the callee in front is evaluated, then the
\*                 argument, then the call is made
Evaluate(node, observed) ==
  CASE node.kind = "Literal" ->
         Returned(LiteralValue(Stringify(node.value)), observed)
    [] node.kind = "Variable" -> Lookup(node.name, observed)
    [] node.kind = "Unary" ->
         Try(Evaluate(node.inner, observed), LAMBDA inner :
           Returned(UnaryOperator(node.operator, inner.val), inner.observed))
    [] node.kind = "Binary" ->
         Try(Evaluate(node.left, observed), LAMBDA left :
         Try(Evaluate(node.right, left.observed), LAMBDA right :
           Returned(BinaryOperator(node.operator, left.val, right.val),
                    right.observed)))
    [] node.kind = "Bind" ->
         Try(Lookup(node.name, observed), LAMBDA callee :
         Try(EvaluateAll(node.parameters, <<>>, callee.observed), LAMBDA arguments :
           Call(callee.val, arguments.val, arguments.observed)))
    [] node.kind = "Pipe" ->
         Try(Evaluate(node.right, observed), LAMBDA callee :
         Try(Evaluate(node.left, callee.observed), LAMBDA argument :
           Call(callee.val, <<argument.val>>, argument.observed)))
\* The arguments of a call, evaluated from left to right.
EvaluateAll(nodes, values, observed) ==
  IF nodes = <<>> THEN Returned(values, observed)
  ELSE Try(Evaluate(Head(nodes), observed), LAMBDA first :
         EvaluateAll(Tail(nodes), Append(values, first.val), first.observed))

\* The functions that make evaluators.
SafeVariants ==
  {"compileSafe", "compileSafeBoolean", "compileSafeInteger",
   "compileSafeNumber", "compileSafeString", "compileSafeCollection",
   "compileSafeDictionary"}
Variants == {"compile"} \cup SafeVariants

\* What the try block of a variant returns for the value of the expression.
Coerce(variant, value) ==
  CASE variant = "compileSafe" -> value
    [] variant = "compileSafeBoolean" -> Boolean(ToBoolean(value))
    [] variant = "compileSafeInteger" -> ToInt32(ToNumber(value))
    [] variant = "compileSafeNumber" -> ToNumber(value)
    [] variant = "compileSafeString" -> Str(StringOf(value))
    [] variant = "compileSafeCollection" ->
         Arr(IF value.type = "array" THEN value.items ELSE <<value>>)
    [] variant = "compileSafeDictionary" -> value

\* What the catch block of a variant returns.
Default(variant) ==
  CASE variant = "compileSafe" -> Undefined
    [] variant = "compileSafeBoolean" -> Boolean(FALSE)
    [] variant = "compileSafeInteger" -> Num(0)
    [] variant = "compileSafeNumber" -> Num(0)
    [] variant = "compileSafeString" -> Str(<<>>)
    [] variant = "compileSafeCollection" -> Arr(<<>>)
    [] variant = "compileSafeDictionary" -> Dict({})

\* compile(expression)()
Compile(node) == Evaluate(node, <<>>)

\* A safe variant whose catch block returns the default and reports nothing.
CompileSafeWithoutReport(variant, node) ==
  With(Evaluate(node, <<>>), LAMBDA r :
    IF r.st = "ok" THEN Returned(Coerce(variant, r.val), r.observed)
    ELSE Returned(Default(variant), r.observed))

\* compileSafe...(expression)()
CompileSafe(variant, node) ==
  With(Evaluate(node, <<>>), LAMBDA r :
    IF r.st = "ok" THEN Returned(Coerce(variant, r.val), r.observed)
    ELSE Returned(Default(variant), Append(r.observed, ConsoleError(r.err))))

\* The evaluator a variant makes of a node, invoked once.
Invoke(variant, node) ==
  IF variant = "compile" THEN Compile(node) ELSE CompileSafe(variant, node)

\* compile(parse(input))()
CompileParse(input, d) ==
  Try(Parse(input, d), LAMBDA node :
    With(Compile(node.val), LAMBDA r :
      [st |-> r.st, val |-> r.val, err |-> r.err, lex |-> node.lex]))

(***************************************************************************)
(* Inputs.                                                                 *)
(***************************************************************************)
RECURSIVE Concat(_)
Concat(words) == IF words = <<>> THEN <<>> ELSE Head(words) \o Concat(Tail(words))

WordSeqs(words, n) == UNION {[1..k -> words] : k \in 0..n}

\* Operands and binary operators of a flat chain x op y op z ...
Operands == {<<"a">>, <<"1">>}
ChainOperators ==
  {<<"+">>, <<"-">>, <<"*">>, <<"*","*">>, <<"<">>, <<"<","=">>}
Separators == {<<>>, <<" ">>}

RECURSIVE Chain(_, _, _)
Chain(operands, operators, sep) ==
  IF operators = <<>> THEN Head(operands)
  ELSE Head(operands) \o sep \o Head(operators) \o sep
       \o Chain(Tail(operands), Tail(operators), sep)

ChainInputs ==
  {Chain(xs, os, sep) : xs \in [1..MaxOperators + 1 -> Operands],
                        os \in [1..MaxOperators -> ChainOperators],
                        sep \in Separators}

\* Texts with references, parentheses and loose ends.
ExprWords ==
  {<<"a">>, <<"1">>, <<".","b">>, <<"[","1","]">>, <<"(">>, <<")">>,
   <<"1","+">>, <<"-","a">>, <<" ">>}
ExprInputs == {Concat(ws) : ws \in WordSeqs(ExprWords, MaxWords)}

\* Template texts.
TemplateWords ==
  {<<"{","{","a","}","}">>, <<"{","{">>, <<"}","}">>, <<"{">>, <<"}">>, <<"a">>,
   <<"1","+">>, <<"(">>}
TemplateInputs == {Concat(ws) : ws \in WordSeqs(TemplateWords, MaxTemplateWords)}

\* Two operands around a logical operator.
LogicalOperators == {<<"&","&">>, <<"|","|">>, <<"?","?">>}
LogicalInputs ==
  {Chain(<<x, y>>, <<o>>, sep) : x \in Operands, y \in Operands,
                                o \in LogicalOperators, sep \in Separators}

ParseInputs == ChainInputs \cup ExprInputs \cup LogicalInputs

\* Iteration headers: name in source, name , name in source, and headers
\* that are neither.
IterationNames == {<<"x">>, <<"k">>}
IterationSources ==
  {<<"i","t","e","m","s">>, <<"a">>, <<"1">>, <<"a","+","1">>, <<"a","-","1">>,
   <<"a"," ","-"," ","1">>, <<"a","*","1">>, <<"a"," ","1">>, <<"a",".">>, <<>>}
InWord == <<" ","i","n"," ">>
Commas == {<<",">>, <<","," ">>}
CollectionHeaders ==
  {n \o InWord \o e : n \in IterationNames, e \in IterationSources}
DictionaryHeaders ==
  {n \o c \o m \o InWord \o e : n \in IterationNames, c \in Commas,
                             m \in IterationNames, e \in IterationSources}
MalformedHeaders ==
  {<<>>, <<"1">> \o InWord \o <<"a">>, <<"x">>, <<"x"," ","a">>,
   <<"x",","," ","1">> \o InWord \o <<"a">>, <<"x",",">> \o InWord \o <<"a">>,
   <<"x"," ","1">> \o InWord \o <<"a">>, <<"x",",","k"," ","a">>,
   <<"x",".","b">> \o InWord \o <<"a">>, <<"i","n"," ","a">>}
IterationInputs == CollectionHeaders \cup DictionaryHeaders \cup MalformedHeaders

\* Keywords, and identifiers that begin with the spelling of a keyword.
Keywords == {<<"u","n","d","e","f","i","n","e","d">>, <<"t","r","u","e">>,
             <<"f","a","l","s","e">>, <<"i","n">>}
Identifiers ==
  Keywords \cup {<<"t","r","u","e","V","a","l","u","e">>, <<"f","a","l","s","e","y">>,
                 <<"u","n","d","e","f","i","n","e","d","T","h","i","n","g">>,
                 <<"i","n","d","e","x">>, <<"t","r","u","e","_","1">>}

\* Trees free() is called on: leaves, nodes over leaves, and nodes over
\* those.
LeafNodes ==
  {LiteralNode(Num(1)), VariableNode(<<"a">>), VariableNode(<<"b">>)}
NodesOver(nodes) ==
  {UnaryNode(<<"-">>, x) : x \in nodes}
  \cup {BinaryNode(<<"+">>, x, y) : x \in nodes, y \in nodes}
  \cup {PipeNode(x, y) : x \in nodes, y \in nodes}
  \cup {BindNode(n, ps) : n \in {<<"a">>, <<"f">>},
                          ps \in UNION {[1..k -> nodes] : k \in 0..MaxParameters}}
SmallNodes == LeafNodes \cup NodesOver(LeafNodes)
FreeNodes ==
  SmallNodes
  \cup {BinaryNode(<<"+">>, x, y) : x \in SmallNodes, y \in LeafNodes}
  \cup {PipeNode(x, y) : x \in LeafNodes, y \in SmallNodes}
  \cup {BindNode(<<"b">>, <<x, y>>) : x \in SmallNodes, y \in LeafNodes}

\* Trees evaluators are made of: leaves, operators over leaves, calls with
\* arguments that succeed, fail or apply a function, and pipes of those.
EvalLeaves ==
  {LiteralNode(Undefined), LiteralNode(Boolean(TRUE)), LiteralNode(Num(0)),
   LiteralNode(Num(7)), LiteralNode(Str(<<>>)), LiteralNode(Str(<<"a","b">>)),
   VariableNode(<<"a">>), VariableNode(<<"n">>), VariableNode(<<"s">>),
   VariableNode(<<"x","s">>), VariableNode(<<"f">>), VariableNode(<<"g">>),
   VariableNode(<<"f","a","i","l">>), VariableNode(<<"u">>)}
CallArguments ==
  {VariableNode(<<"n">>), VariableNode(<<"u">>),
   BindNode(<<"f","a","i","l">>, <<>>), BindNode(<<"g">>, <<>>)}
CallNodes ==
  {BindNode(name, ps) :
     name \in {<<"f">>, <<"g">>, <<"f","a","i","l">>, <<"u">>, <<"n">>},
     ps \in UNION {[1..k -> CallArguments] : k \in 0..MaxParameters}}
PipeChildren ==
  {VariableNode(<<"n">>), VariableNode(<<"u">>), VariableNode(<<"f">>),
   BindNode(<<"f","a","i","l">>, <<>>), BindNode(<<"g">>, <<>>),
   BindNode(<<"f">>, <<VariableNode(<<"n">>)>>)}
PipeNodes == {PipeNode(x, y) : x \in PipeChildren, y \in PipeChildren}
EvalNodes ==
  EvalLeaves
  \cup {UnaryNode(op, x) : op \in {<<"!">>, <<"-">>, <<"+">>}, x \in EvalLeaves}
  \cup {BinaryNode(<<"-">>, x, y) : x \in EvalLeaves, y \in EvalLeaves}
  \cup CallNodes \cup PipeNodes

\* Texts of literals: the keywords, unsigned integers, and texts of ordinary
\* characters between double or single quotes.
Numerals == {Concat(ds) : ds \in UNION {[1..k -> {<<"0">>, <<"1">>, <<"7">>}] : k \in 1..MaxWords}}
OrdinaryTexts ==
  {Concat(cs) : cs \in WordSeqs({<<"a">>, <<"b">>, <<"c">>, <<" ">>}, MaxWords)}
Quotes == {"\"", "'"}
QuotedTexts == {<<q>> \o t \o <<q>> : q \in Quotes, t \in OrdinaryTexts}
LiteralKeywords == Keywords \ {<<"i","n">>}
LiteralTexts == LiteralKeywords \cup Numerals \cup QuotedTexts

\* Texts a Lexer is constructed on.
LexerInputs ==
  {Chain(xs, os, sep) : xs \in [1..MaxOperators + 1 -> {<<"a">>}],
                        os \in [1..MaxOperators -> ChainOperators],
                        sep \in Separators}
  \cup {Concat(ws) : ws \in WordSeqs({<<"a">>, <<"(">>, <<"=","=">>, <<" ">>}, MaxWords)}
  \cup Identifiers

\* Arguments of Lexer.expect.
ExpectTokens == {<<"name">>, <<"right">>, <<"name", "operator">>}
Range(seq) == {seq[k] : k \in 1..Len(seq)}

(***************************************************************************)
(* The state machine: a client that constructs a Lexer and calls its        *)
(* methods one after the other, or calls parse or interpolate.  parse and  *)
(* interpolate construct their own Parser and Lexer and read nothing else, *)
(* so every call of them is a call from the initial state.                 *)
(***************************************************************************)
VARIABLES
  lexer,    \* the Lexer the last call worked on, as the call left it
  call,     \* the last call: its name and its argument
  outcome   \* what the last call returned or threw

vars == <<lexer, call, outcome>>

\* The calls after which the client holds a Lexer.
LexerCalls == {"Lexer", "next", "step", "expect"}

Outcome(r) == [st |-> r.st, val |-> r.val, err |-> r.err]

Init ==
  /\ lexer = Nil
  /\ call = [name |-> "none", arg |-> <<>>]
  /\ outcome = Outcome(Ok(Nil, Nil))

\* new Lexer(input)
NewLexer ==
  /\ call.name = "none"
  /\ \E input \in LexerInputs :
       /\ lexer' = Lexer(input)
       /\ call' = [name |-> "Lexer", arg |-> input]
       /\ outcome' = Outcome(Ok(Nil, Nil))

\* lexer.next()
Next_ ==
  /\ call.name \in LexerCalls
  /\ LET r == LexNext(lexer)
     IN /\ lexer' = r.lex
        /\ call' = [name |-> "next", arg |-> <<>>]
        /\ outcome' = Outcome(r)

\* lexer.step()
Step ==
  /\ call.name \in LexerCalls
  /\ LET r == LexStep(lexer)
     IN /\ lexer' = r.lex
        /\ call' = [name |-> "step", arg |-> <<>>]
        /\ outcome' = Outcome(r)

\* lexer.expect(...tokens)
Expect ==
  /\ call.name \in LexerCalls
  /\ \E tokens \in ExpectTokens :
       LET r == LexExpect(lexer, Range(tokens))
       IN /\ lexer' = r.lex
          /\ call' = [name |-> "expect", arg |-> tokens]
          /\ outcome' = Outcome(r)

\* parse(input)
ParseCall ==
  /\ call.name = "none"
  /\ \E input \in ParseInputs :
       LET r == Parse(input, MaxStack)
       IN /\ lexer' = r.lex
          /\ call' = [name |-> "parse", arg |-> input]
          /\ outcome' = Outcome(r)

\* interpolate(input)
InterpolateCall ==
  /\ call.name = "none"
  /\ \E input \in TemplateInputs :
       LET r == Interpolate(input, MaxStack)
       IN /\ lexer' = r.lex
          /\ call' = [name |-> "interpolate", arg |-> input]
          /\ outcome' = Outcome(r)

\* new Parser(input).parseIteration()
ParseIterationCall ==
  /\ call.name = "none"
  /\ \E input \in IterationInputs :
       LET r == ParseIteration(input, MaxStack)
       IN /\ lexer' = r.lex
          /\ call' = [name |-> "parseIteration", arg |-> input]
          /\ outcome' = Outcome(r)

\* node.free()
FreeCall ==
  /\ call.name = "none"
  /\ \E node \in FreeNodes :
       /\ call' = [name |-> "free", arg |-> node]
       /\ outcome' = Outcome(Ok(Free(node), Nil))
       /\ UNCHANGED lexer

\* node.free() once more on the same node
FreeAgain ==
  /\ call.name = "free"
  /\ call' = [name |-> "free again", arg |-> call.arg]
  /\ outcome' = Outcome(Ok(Free(call.arg), Nil))
  /\ UNCHANGED lexer

\* compile...(node)() for one of the functions that make evaluators
EvaluateCall ==
  /\ call.name = "none"
  /\ \E variant \in Variants, node \in EvalNodes :
       /\ call' = [name |-> variant, arg |-> node]
       /\ outcome' = Invoke(variant, node)
       /\ UNCHANGED lexer

\* compile(parse(input))()
CompileParseCall ==
  /\ call.name = "none"
  /\ \E input \in LiteralTexts :
       LET r == CompileParse(input, MaxStack)
       IN /\ lexer' = r.lex
          /\ call' = [name |-> "compile(parse)", arg |-> input]
          /\ outcome' = Outcome(r)

Next ==
  \/ NewLexer
  \/ Next_
  \/ Step
  \/ Expect
  \/ ParseCall
  \/ InterpolateCall
  \/ ParseIterationCall
  \/ FreeCall
  \/ FreeAgain
  \/ EvaluateCall
  \/ CompileParseCall

Spec == Init /\ [][Next]_vars

\* The client that only works on a Lexer.
NextLexer == NewLexer \/ Next_ \/ Step \/ Expect
SpecLexer == Init /\ [][NextLexer]_vars

\* The client that only calls parse.
SpecParse == Init /\ [][ParseCall]_vars

\* The client that only calls interpolate.
SpecInterpolate == Init /\ [][InterpolateCall]_vars

\* The client that only calls free.
NextFree == FreeCall \/ FreeAgain
SpecFree == Init /\ [][NextFree]_vars

\* The client that only calls parseIteration.
SpecIteration == Init /\ [][ParseIterationCall]_vars

\* The client that only makes evaluators of trees and invokes them.
SpecEvaluate == Init /\ [][EvaluateCall]_vars

\* The client that only evaluates what parse makes of the text of a literal.
SpecRoundTrip == Init /\ [][CompileParseCall]_vars

\* Within the texts of the model the call stack is exhausted only by the
\* recursion of Parser._parseValue on a 'left' token, which consumes nothing.
StackBoundIsWideEnough == outcome.st = "range" => lexer.token = "left"

(***************************************************************************)
(* The claims.                                                             *)
(***************************************************************************)
\* The node a single operand of a chain parses to.
OperandNode(x) ==
  IF x[1] \in Digit THEN LiteralNode(Num(ParseFloat(x)))
  ELSE ReferenceNode(<<FieldComponent(x)>>)

\* The last call was parse(input) and it returned node.
Parsed(input, node) ==
  /\ call = [name |-> "parse", arg |-> input]
  /\ outcome.st = "ok"
  /\ outcome.val = node

\* C1: multiplicative operators bind tighter than additive ones: for operands
\* x, y, z, parse("x + y * z") returns Binary(+, x, Binary(*, y, z)), with or
\* without blanks around the operators.
C1_MultiplicativeBindsTighter ==
  \A x, y, z \in Operands, sep \in Separators :
    call = [name |-> "parse",
            arg |-> Chain(<<x, y, z>>, << <<"+">>, <<"*">> >>, sep)]
    => Parsed(call.arg,
              BinaryNode(<<"+">>, OperandNode(x),
                         BinaryNode(<<"*">>, OperandNode(y), OperandNode(z))))

\* C2: after every successful next() that does not reach the end, the new
\* label is the text that stood at the cursor after the leading whitespace,
\* and the remaining input is the previous one without that whitespace and
\* that label.
C2_LabelIsTextAtCursor ==
  [][(call'.name = "next" /\ outcome'.st = "ok" /\ lexer'.token # "end")
     => /\ At(lexer.input, Span(lexer.input, Space), lexer'.label)
        /\ lexer'.input =
             Substr(lexer.input, Span(lexer.input, Space) + Len(lexer'.label))]_vars

\* C3: parse(input) terminates for every input, returning a node or raising a
\* syntax failure, and parse("(1)") returns Literal(1).
C3_ParseTerminates ==
  call.name = "parse"
  => /\ outcome.st \in {"ok", "syntax"}
     /\ call.arg = <<"(", "1", ")">> => Parsed(call.arg, LiteralNode(Num(1)))

\* The path component a word of a reference chain stands for.
ComponentOf(word) ==
  IF Head(word) = "." THEN FieldComponent(Tail(word))
  ELSE SubscriptComponent(LiteralNode(Num(1)))

\* C4: a root name followed by a chain of .b and [1] accesses parses to a
\* Reference with the root field and one component per access, in order;
\* parse("a.b[1]") returns Reference(Field a, Field b, Subscript(Literal 1)).
C4_ReferenceChain ==
  \A n \in 0..(MaxWords - 1) :
    \A accesses \in [1..n -> {<<".","b">>, <<"[","1","]">>}] :
      call = [name |-> "parse", arg |-> <<"a">> \o Concat(accesses)]
      => Parsed(call.arg,
                ReferenceNode(<<FieldComponent(<<"a">>)>>
                              \o [k \in 1..n |-> ComponentOf(accesses[k])]))

\* The precedence level (index into the table) of a binary operator.
LevelOf(operator) ==
  CHOOSE k \in 1..Len(PrecedenceTable) : operator \in PrecedenceTable[k].operators

Front(seq) == SubSeq(seq, 1, Len(seq) - 1)
Last(seq) == seq[Len(seq)]

\* The left-leaning and the right-leaning tree of a chain.
RECURSIVE LeftTree(_, _)
LeftTree(operands, operators) ==
  IF operators = <<>> THEN OperandNode(Head(operands))
  ELSE BinaryNode(Last(operators), LeftTree(Front(operands), Front(operators)),
                  OperandNode(Last(operands)))
RECURSIVE RightTree(_, _)
RightTree(operands, operators) ==
  IF operators = <<>> THEN OperandNode(Head(operands))
  ELSE BinaryNode(Head(operators), OperandNode(Head(operands)),
                  RightTree(Tail(operands), Tail(operators)))

\* C5: a chain of ** parses to the right-leaning tree and a chain of operators
\* of any other single precedence level parses to the left-leaning tree.
C5_Associativity ==
  \A xs \in [1..MaxOperators + 1 -> Operands],
     os \in [1..MaxOperators -> ChainOperators], sep \in Separators :
    (/\ call = [name |-> "parse", arg |-> Chain(xs, os, sep)]
     /\ \A k \in 1..MaxOperators : LevelOf(os[k]) = LevelOf(os[1]))
    => Parsed(call.arg,
              IF os[1] = <<"*","*">> THEN RightTree(xs, os) ELSE LeftTree(xs, os))

\* Whether the text holds a {{ pair.
HasOpening(input) == \E p \in 0..Len(input) : At(input, p, <<"{","{">>)

\* C6: for an input without a {{ pair interpolate returns exactly one
\* StaticFragment whose text is the input, character for character; a lone {
\* is kept together with the character after it and nothing is added.
C6_LiteralTextPreserved ==
  (call.name = "interpolate" /\ ~HasOpening(call.arg))
  => /\ outcome.st = "ok"
     /\ outcome.val = InterpolatedNode(<<StaticFragmentNode(call.arg)>>)

\* The texts of the {{ ... }} regions of a template in order of appearance,
\* as the specification describes the scan: outside a region a { that is not
\* followed by { is text together with the character after it; inside, a }
\* that is not followed by } is text together with the character after it.
RECURSIVE RegionTexts(_, _)
RECURSIVE RegionTextsInside(_, _, _)
RegionTexts(input, i) ==
  IF i >= Len(input) THEN <<>>
  ELSE IF input[i + 1] # "{" THEN RegionTexts(input, i + 1)
  ELSE IF At(input, i, <<"{","{">>) THEN RegionTextsInside(input, i + 2, <<>>)
  ELSE RegionTexts(input, i + 2)
RegionTextsInside(input, i, text) ==
  IF i >= Len(input) THEN <<>>
  ELSE IF input[i + 1] # "}" THEN RegionTextsInside(input, i + 1, Append(text, input[i + 1]))
  ELSE IF At(input, i, <<"}","}">>) THEN <<text>> \o RegionTexts(input, i + 2)
  ELSE RegionTextsInside(input, i + 2, text \o <<"}">> \o CharAt(input, i + 1))

ExpressionKinds == {"Literal", "Reference", "Unary", "Binary"}

\* C7: whenever interpolate returns, the fragments are of odd number, those at
\* the positions 0, 2, ... are StaticFragments and those at the positions
\* 1, 3, ... are the parsed expressions of the regions, one per region in
\* order of appearance; the first and the last fragment are StaticFragments.
C7_AlternatingFragments ==
  (call.name = "interpolate" /\ outcome.st = "ok")
  => LET fragments == outcome.val.fragments
         regions == RegionTexts(call.arg, 0)
     IN /\ outcome.val.kind = "Interpolated"
        /\ Len(fragments) = 2 * Len(regions) + 1
        /\ fragments[1].kind = "StaticFragment"
        /\ fragments[Len(fragments)].kind = "StaticFragment"
        /\ \A k \in 1..Len(fragments) :
             IF k % 2 = 1 THEN fragments[k].kind = "StaticFragment"
             ELSE /\ fragments[k].kind \in ExpressionKinds
                  /\ fragments[k] = Parse(regions[k \div 2], MaxStack).val

\* interpolate returned a template of two regions: five fragments.
C7_Witness ==
  /\ call.name = "interpolate"
  /\ outcome.st = "ok"
  /\ Len(outcome.val.fragments) = 5

\* C8: every syntax failure that reaches the caller of parse or interpolate
\* carries the text that was passed to that entry point.
C8_FailureCarriesInput ==
  (call.name \in {"parse", "interpolate"} /\ outcome.st = "syntax")
  => outcome.err = call.arg

\* After the Parser is constructed on the input, _parseRoot returns a node and
\* leaves the tokenizer before a token that is not end.
TokensRemain(input) ==
  With(Parser(input), LAMBDA parser :
    /\ parser.st = "ok"
    /\ With(ParseRoot(parser.lex, MaxStack), LAMBDA root :
         root.st = "ok" /\ root.lex.token # "end"))

\* The number of positions of the text that hold the character c.
Count(input, c) == Cardinality({k \in 1..Len(input) : input[k] = c})

\* The expression is incomplete: the text ends, blanks apart, in a character
\* that wants something after it (an operator, a dot, an opening parenthesis
\* or bracket), or it opens more parentheses or brackets than it closes.
Incomplete(input) ==
  \/ \E k \in 1..Len(input) :
       /\ input[k] \in {"+", "-", "*", "<", ".", "(", "["}
       /\ \A j \in (k + 1)..Len(input) : input[j] \in Space
  \/ Count(input, "(") > Count(input, ")")
  \/ Count(input, "[") > Count(input, "]")

\* C9: whenever parse returns, the tokenizer's current token is end (and no
\* input is left); when tokens remain after one complete expression, or the
\* expression is incomplete, parse raises a syntax failure and returns no node.
C9_WholeInputConsumed ==
  call.name = "parse"
  => /\ outcome.st = "ok" => (lexer.token = "end" /\ lexer.input = <<>>)
     /\ (TokensRemain(call.arg) \/ Incomplete(call.arg))
        => (outcome.st = "syntax" /\ outcome.val = Nil)

\* Some {{ of the text is not followed later by a }} pair.
Unterminated(input) ==
  \E p \in 0..Len(input) :
    /\ At(input, p, <<"{","{">>)
    /\ \A q \in (p + 2)..Len(input) : ~At(input, q, <<"}","}">>)

\* C10: for an input with an unterminated region interpolate raises a syntax
\* failure and returns no Interpolated node.
C10_UnterminatedRaisesSyntax ==
  (call.name = "interpolate" /\ Unterminated(call.arg))
  => (outcome.st = "syntax" /\ outcome.val = Nil)

\* The last call was new Parser(input).parseIteration() and it returned node.
ParsedIteration(input, node) ==
  /\ call = [name |-> "parseIteration", arg |-> input]
  /\ outcome.st = "ok"
  /\ outcome.val = node

\* What parseIteration has to make of a header whose source text is e: the
\* header node when e parses to one whole expression, a syntax failure
\* otherwise.
IterationOf(input, e, node) ==
  IF Parse(e, MaxStack).st = "ok" THEN ParsedIteration(input, node)
  ELSE outcome.st = "syntax"

\* C13: parseIteration accepts two header shapes: "name in expr" gives a
\* collection-iteration header with that name and the parsed expr, and
\* "name , name in expr" gives a dictionary-iteration header with the two
\* names in order; a header that does not start with a name, or has another
\* token after the first name, or whose expr leaves input behind, raises a
\* syntax failure.
C13_IterationHeaders ==
  call.name = "parseIteration"
  => /\ \A n \in IterationNames, e \in IterationSources :
          call.arg = n \o InWord \o e
          => IterationOf(call.arg, e,
               CollectionIterationNode(n, Parse(e, MaxStack).val))
     /\ \A n \in IterationNames, m \in IterationNames, c \in Commas,
           e \in IterationSources :
          call.arg = n \o c \o m \o InWord \o e
          => IterationOf(call.arg, e,
               DictionaryIterationNode(n, m, Parse(e, MaxStack).val))
     /\ call.arg \in MalformedHeaders => outcome.st = "syntax"

\* C14: the logical operators are part of the grammar: for operands x and y,
\* parse("x && y"), parse("x || y") and parse("x ?? y") return a Binary node
\* with that operator and the two operands.
C14_LogicalOperators ==
  \A x \in Operands, y \in Operands, o \in LogicalOperators, sep \in Separators :
    call = [name |-> "parse", arg |-> Chain(<<x, y>>, <<o>>, sep)]
    => Parsed(call.arg, BinaryNode(o, OperandNode(x), OperandNode(y)))

\* C18: end is absorbing: when next() or step() returns with the token end,
\* the label and the remaining input are empty; from the token end every
\* next() and step() returns, with the token end and an empty label; and
\* after a next() or step() that returned, the token is not begin.
C18_EndIsAbsorbing ==
  [][call'.name \in {"next", "step"}
     => /\ (outcome'.st = "ok" /\ lexer'.token = "end")
           => (lexer'.label = <<>> /\ lexer'.input = <<>>)
        /\ lexer.token = "end"
           => (outcome'.st = "ok" /\ lexer'.token = "end" /\ lexer'.label = <<>>)
        /\ outcome'.st = "ok" => lexer'.token # "begin"]_vars

\* step() was called with the token end of a text that is not blank: it
\* returned the empty label and the token is still end.
C18_Witness ==
  /\ call.name = "step"
  /\ outcome.st = "ok" /\ outcome.val = <<>>
  /\ lexer.token = "end"
  /\ lexer.originalInput # <<>> /\ Head(lexer.originalInput) \notin Space

\* C19: expect(tokens...) consumes only on a match: when the current token
\* is none of the tokens it raises a syntax failure and the token, the label
\* and the remaining input stay as they are; when it is one of them, expect
\* does what step() does: it returns the label that was current and the
\* lexer is one token further.
C19_ExpectConsumesOnMatch ==
  [][call'.name = "expect"
     => IF lexer.token \in Range(call'.arg)
        THEN /\ outcome' = Outcome(LexStep(lexer))
             /\ lexer' = LexNext(lexer).lex
             /\ outcome'.st = "ok" => outcome'.val = lexer.label
        ELSE /\ outcome'.st = "syntax"
             /\ lexer' = lexer]_vars

\* expect matched a name token and returned its label.
C19_Witness ==
  /\ call.name = "expect"
  /\ outcome.st = "ok"
  /\ outcome.val = <<"a">>
  /\ lexer.token # "begin"

\* The identifier at the front of a text: its longest prefix of identifier
\* characters.
IdentifierAt(s) == SubSeq(s, 1, Span(s, NameChar))

\* The token of a keyword.
KeywordToken(identifier) ==
  CASE identifier = <<"u","n","d","e","f","i","n","e","d">> -> "undefined"
    [] identifier = <<"t","r","u","e">> -> "true"
    [] identifier = <<"f","a","l","s","e">> -> "false"
    [] identifier = <<"i","n">> -> "in"

\* C20: keywords do not split identifiers: when the text at the cursor, past
\* the whitespace, starts an identifier, next() makes a keyword token of it
\* when the whole identifier is a keyword, and otherwise one name token; the
\* label is the whole identifier.
C20_KeywordsDoNotSplitIdentifiers ==
  [][LET rest == Substr(lexer.input, Span(lexer.input, Space))
     IN (call'.name = "next" /\ rest # <<>> /\ Head(rest) \in NameStart)
        => /\ outcome'.st = "ok"
           /\ lexer'.label = IdentifierAt(rest)
           /\ lexer'.token = (IF IdentifierAt(rest) \in Keywords
                              THEN KeywordToken(IdentifierAt(rest))
                              ELSE "name")]_vars

\* A list without the elements that stand in it a second time.
RECURSIVE FirstOccurrences(_)
FirstOccurrences(list) ==
  IF list = <<>> THEN <<>>
  ELSE LET front == SubSeq(list, 1, Len(list) - 1)
       IN IF \E k \in 1..Len(front) : front[k] = list[Len(list)]
          THEN FirstOccurrences(front)
          ELSE Append(FirstOccurrences(front), list[Len(list)])

\* The free-variable lists of the children of a node, one after the other
\* (for Bind, after the bound name).
ChildrenFree(node) ==
  CASE node.kind \in {"Binary", "Pipe"} -> Free(node.left) \o Free(node.right)
    [] node.kind = "Bind" ->
         <<node.name>>
         \o ConcatElements([k \in 1..Len(node.parameters) |->
                              Names(Free(node.parameters[k]))])

\* C17: free() of a Binary, Pipe or Bind node is the union of the children's
\* lists (for Bind after the bound name) with every name once, in the order
\* of first occurrence; free() of a Literal is empty; a second free() on the
\* same node returns an equal list and the tree is as it was.
C17_FreeIsDeduplicatedUnion ==
  [][call'.name \in {"free", "free again"}
     => LET node == call'.arg
            list == outcome'.val
        IN /\ outcome'.st = "ok"
           /\ \A j, k \in 1..Len(list) : list[j] = list[k] => j = k
           /\ node.kind = "Literal" => list = <<>>
           /\ node.kind \in {"Binary", "Pipe", "Bind"}
              => list = FirstOccurrences(ChildrenFree(node))
           /\ call'.name = "free again"
              => (call'.arg = call.arg /\ outcome'.val = outcome.val)]_vars

\* free() was called twice on a node whose children share a name.
C17_Witness ==
  /\ call.name = "free again"
  /\ call.arg.kind \in {"Binary", "Pipe", "Bind"}
  /\ Len(outcome.val) >= 2
  /\ Len(ChildrenFree(call.arg)) > Len(outcome.val)


(***************************************************************************)
(* Evaluators.                                                             *)
(***************************************************************************)
TypedVariants == SafeVariants \ {"compileSafe"}

\* What an evaluator handed to console.error, in order.
Reported(observed) == SelectSeq(observed, LAMBDA e : "reported" \in DOMAIN e)

\* The defaults the specification gives for the typed safe evaluators.
SpecifiedDefault(variant) ==
  CASE variant = "compileSafeBoolean" -> [type |-> "boolean", bool |-> FALSE]
    [] variant = "compileSafeInteger" -> [type |-> "number", num |-> 0]
    [] variant = "compileSafeNumber" -> [type |-> "number", num |-> 0]
    [] variant = "compileSafeString" -> [type |-> "string", str |-> <<>>]
    [] variant = "compileSafeCollection" -> [type |-> "array", items |-> <<>>]
    [] variant = "compileSafeDictionary" -> [type |-> "object", keys |-> {}]

\* C11: a safe evaluator never raises.  When evaluating the expression
\* fails, it returns the default of its variant (false, 0, 0, "", the empty
\* sequence, the empty mapping) and hands the failure to console.error
\* exactly once; when evaluating succeeds it reports nothing.  The strict
\* evaluator raises the failure and reports nothing.
C11_SafeEvaluatorsNeverRaise ==
  call.name \in Variants =>
    LET strict == Evaluate(call.arg, <<>>)
    IN IF call.name = "compile"
       THEN /\ outcome.st = strict.st
            /\ strict.st # "ok" => outcome.err = strict.err
            /\ Reported(outcome.observed) = <<>>
       ELSE /\ outcome.st = "ok"
            /\ strict.st = "ok" => Reported(outcome.observed) = <<>>
            /\ strict.st # "ok" =>
                 /\ Reported(outcome.observed) = <<[reported |-> strict.err]>>
                 /\ call.name \in TypedVariants =>
                      outcome.val = SpecifiedDefault(call.name)

\* C11 witness: the collection-safe evaluator of f(g(), fail()) has applied
\* g and fail, then returned the empty sequence and reported the failure.
C11_Witness ==
  /\ call.name = "compileSafeCollection"
  /\ call.arg = BindNode(<<"f">>, <<BindNode(<<"g">>, <<>>),
                                   BindNode(<<"f","a","i","l">>, <<>>)>>)
  /\ outcome.st = "ok"
  /\ outcome.val = Arr(<<>>)
  /\ Len(outcome.observed) = 3
  /\ Len(Reported(outcome.observed)) = 1

\* The type the specification declares for a typed safe evaluator.
DeclaredType(variant) ==
  CASE variant = "compileSafeBoolean" -> "boolean"
    [] variant = "compileSafeInteger" -> "number"
    [] variant = "compileSafeNumber" -> "number"
    [] variant = "compileSafeString" -> "string"
    [] variant = "compileSafeCollection" -> "array"
    [] variant = "compileSafeDictionary" -> "object"

\* C12: a typed safe evaluator returns a value of its declared type on every
\* invocation, whatever the expression evaluates to: a boolean, an integer,
\* a number, a string, a sequence, a mapping.
C12_TypedEvaluatorsReturnDeclaredType ==
  call.name \in TypedVariants =>
    /\ outcome.st = "ok"
    /\ outcome.val.type = DeclaredType(call.name)
    /\ call.name = "compileSafeInteger" => outcome.val # NaN

\* The decimal value of a text of digits.
RECURSIVE Decimal(_)
Decimal(digits) ==
  IF digits = <<>> THEN 0
  ELSE 10 * Decimal(SubSeq(digits, 1, Len(digits) - 1))
       + DigitValue(digits[Len(digits)])

\* The value the text of a literal stands for.
Decoded(text) ==
  CASE text = <<"u","n","d","e","f","i","n","e","d">> -> [type |-> "undefined"]
    [] text = <<"t","r","u","e">> -> [type |-> "boolean", bool |-> TRUE]
    [] text = <<"f","a","l","s","e">> -> [type |-> "boolean", bool |-> FALSE]
    [] Head(text) \in Digit -> [type |-> "number", num |-> Decimal(text)]
    [] Head(text) \in Quotes ->
         [type |-> "string", str |-> SubSeq(text, 2, Len(text) - 1)]

\* C15: for the text of a literal (undefined, true, false, an unsigned
\* integer, ordinary characters between double or single quotes) parse
\* returns one Literal node, and the evaluator compiled of it returns the
\* value the text stands for.
C15_LiteralRoundTrip ==
  call.name = "compile(parse)" =>
    /\ Parse(call.arg, MaxStack).st = "ok"
    /\ Parse(call.arg, MaxStack).val.kind = "Literal"
    /\ outcome.st = "ok"
    /\ outcome.val = Decoded(call.arg)

\* Evaluating a Pipe as the specification orders it: left, then right, then
\* the value of right applied to the value of left.
LeftThenRight(node) ==
  Try(Evaluate(node.left, <<>>), LAMBDA argument :
  Try(Evaluate(node.right, argument.observed), LAMBDA callee :
    Call(callee.val, <<argument.val>>, callee.observed)))

\* Evaluating a Bind as the specification orders it: the name, then the
\* arguments from left to right, then the call.
NameThenArguments(node) ==
  Try(Lookup(node.name, <<>>), LAMBDA callee :
  Try(EvaluateAll(node.parameters, <<>>, callee.observed), LAMBDA arguments :
    Call(callee.val, arguments.val, arguments.observed)))

\* C16: the strict evaluator of a Pipe evaluates left, then right, then
\* applies; the strict evaluator of a Bind resolves the name, evaluates the
\* arguments from left to right, then applies.  What the children apply and
\* the failure that is raised are those of that order.
C16_EvaluationOrder ==
  call.name = "compile" /\ call.arg.kind \in {"Pipe", "Bind"} =>
    LET ordered == IF call.arg.kind = "Pipe" THEN LeftThenRight(call.arg)
                   ELSE NameThenArguments(call.arg)
    IN /\ outcome.st = ordered.st
       /\ outcome.observed = ordered.observed
       /\ outcome.st = "ok" => outcome.val = ordered.val
       /\ outcome.st # "ok" => outcome.err = ordered.err

=============================================================================
